---- MODULE Spec2Model ----
(***************************************************************************)
(* pydatastructs/miscellaneous_data_structures/queue.py                    *)
(*                                                                         *)
(* Queue (factory), ArrayQueue (over DynamicOneDimensionalArray) and       *)
(* LinkedListQueue (over SinglyLinkedList).  The two containers live in    *)
(* pydatastructs.linear_data_structures, outside queue.py; they are        *)
(* modelled from their description in the specification (sections 3, 4.2,  *)
(* 6 and 7).                                                               *)
(***************************************************************************)
EXTENDS Integers, Sequences, FiniteSets, TLC

VARIABLES q, out, hist, q2, out2, napp2

vars == <<q, out, hist, q2, out2, napp2>>

---------------------------------------------------------------------------
(* Bounds of the model *)

\* accepted elements (initial items and successful appends) per queue
MaxAppended == 7

\* longest initial-items sequence offered to the constructors
MaxItems == 2

\* accepted elements per queue in the substitution test
MaxPairAppended == 5

\* accepted elements before the caller starts to drain the queue
MaxDrainAppended == 4

---------------------------------------------------------------------------
(* Python values and types *)

NoneType == "NoneType"

\* a python value: its type and its payload
Val(t, v) == [ty |-> t, v |-> v]

None == Val(NoneType, 0)

\* type(x)
type(x) == x.ty

\* the elements offered to the queues: two ints and one str
Values == {Val("int", 1), Val("int", 2), Val("str", 1)}

\* the dtype keyword of Queue(...): absent, or a python type
Absent == "absent"
Dtypes == {Absent, "int", "str"}

\* the items keyword of Queue(...): absent (None), a list, or an object that
\* is no list or tuple: a set (not subscriptable), or a dict, of which seq
\* holds the value under key 0 when it has that key
NoItems == [given |-> FALSE, form |-> "none", seq |-> <<>>]
ListOf(s) == [given |-> TRUE, form |-> "list", seq |-> s]
SetArg == [given |-> TRUE, form |-> "set", seq |-> <<>>]
DictOf(s) == [given |-> TRUE, form |-> "dict", seq |-> s]
RECURSIVE SeqsUpTo(_)
SeqsUpTo(n) ==
    IF n = 0 THEN {<<>>}
    ELSE LET S == SeqsUpTo(n - 1)
         IN  S \cup {Append(s, x) : s \in {t \in S : Len(t) = n - 1}, x \in Values}
ItemsArgs ==
    {NoItems} \cup {ListOf(s) : s \in SeqsUpTo(MaxItems)}
        \cup {SetArg, DictOf(<<>>)} \cup {DictOf(<<x>>) : x \in Values}

\* the implementation keyword of Queue(...)
Implementations == {Absent, "array", "linkedlist", "linked-list", "heap"}

\* exceptions
NoErr == "ok"
ValueError == "ValueError"
TypeError == "TypeError"
IndexError == "IndexError"
KeyError == "KeyError"
NotImplementedError == "NotImplementedError"

NoQueue == [kind |-> "none"]

\* what a call hands back: the object afterwards, the value returned, the exception raised
Result(obj, ret, err) == [obj |-> obj, ret |-> ret, err |-> err]

---------------------------------------------------------------------------
(* DynamicOneDimensionalArray: the growable, compacting array container.   *)
(* _size is the allocated capacity, _num the live count, _last_pos_filled  *)
(* the last filled index, _data the slots 0 .. _size-1 (None when free).   *)

\* the low-water mark is 1/LoadFactorInv
LoadFactorInv == 4

\* num / size < load factor
BelowLoadFactor(num, size) == LoadFactorInv * num < size

\* n free slots
Slots(n) == [i \in 0..(n - 1) |-> None]

\* an empty container of capacity n
DODA_new(dtype, n) ==
    [_dtype |-> dtype, _data |-> Slots(n), _size |-> n, _num |-> 0,
     _last_pos_filled |-> -1]

\* a container holding the items of a list, in order; the elements must be
\* of the element type
DODA_from(dtype, s) ==
    IF \E i \in 1..Len(s) : type(s[i]) # dtype
    THEN Result(NoQueue, None, TypeError)
    ELSE Result([_dtype |-> dtype,
                 _data |-> [i \in 0..(Len(s) - 1) |-> s[i + 1]],
                 _size |-> Len(s), _num |-> Len(s),
                 _last_pos_filled |-> Len(s) - 1], None, NoErr)

\* a container built from the items argument: only a list is taken
DODA_of(dtype, items) ==
    IF items.form # "list" THEN Result(NoQueue, None, TypeError)
    ELSE DODA_from(dtype, items.seq)

\* the filled indices of the container
Live(a) == {i \in 0..a._last_pos_filled : i \in DOMAIN a._data /\ a._data[i] # None}

\* the k-th (from 0) filled index in increasing order
NthLive(a, k) == CHOOSE i \in Live(a) : Cardinality({j \in Live(a) : j < i}) = k

\* shrink and compact when the fill ratio is below the load factor: the
\* live elements move, in order, to the start of a smaller storage
DODA_modify(a) ==
    IF a._size > 0 /\ BelowLoadFactor(a._num, a._size)
    THEN LET n == Cardinality(Live(a))
             newsize == 2 * a._num + 1
         IN  [a EXCEPT !._data = [j \in 0..(newsize - 1) |->
                                     IF j < n THEN a._data[NthLive(a, j)] ELSE None],
                       !._size = newsize,
                       !._last_pos_filled = n - 1]
    ELSE a

\* append with automatic growth; an element of another type is rejected
DODA_append(a, el) ==
    IF type(el) # a._dtype
    THEN Result(a, None, TypeError)
    ELSE IF a._last_pos_filled + 1 = a._size
    THEN LET newsize == 2 * a._size + 1
         IN  Result([a EXCEPT !._data = [i \in 0..(newsize - 1) |->
                                 IF i <= a._last_pos_filled THEN a._data[i]
                                 ELSE IF i = a._last_pos_filled + 1 THEN el
                                 ELSE None],
                              !._size = newsize,
                              !._num = a._num + 1,
                              !._last_pos_filled = a._last_pos_filled + 1],
                    None, NoErr)
    ELSE Result([a EXCEPT !._data[a._last_pos_filled + 1] = el,
                          !._num = a._num + 1,
                          !._last_pos_filled = a._last_pos_filled + 1],
                None, NoErr)

\* indexed read a[idx], with python's list indexing: a negative index counts
\* from the end, an index outside the storage raises IndexError
DODA_getitem(a, idx) ==
    LET i == IF idx < 0 THEN idx + a._size ELSE idx
    IN  IF i \in 0..(a._size - 1) THEN Result(a, a._data[i], NoErr)
        ELSE Result(a, None, IndexError)

\* delete by index, then shrink and compact below the load factor
DODA_delete(a, idx) ==
    IF idx <= a._last_pos_filled /\ idx >= 0 /\ a._data[idx] # None
    THEN DODA_modify([a EXCEPT !._data[idx] = None,
                               !._num = a._num - 1,
                               !._last_pos_filled =
                                   IF a._last_pos_filled = idx
                                   THEN a._last_pos_filled - 1
                                   ELSE a._last_pos_filled])
    ELSE a

---------------------------------------------------------------------------
(* SinglyLinkedList: nodes are objects with an identity (1, 2, ...); 0 is  *)
(* the None reference.                                                     *)

NoNode == 0

SLL_new == [nodes |-> [i \in {} |-> None], head |-> NoNode, tail |-> NoNode,
            size |-> 0, allocated |-> 0]

\* append at the tail
SLL_append(l, x) ==
    LET n == l.allocated + 1
        linked == [i \in DOMAIN l.nodes \cup {n} |->
                     IF i = n THEN [data |-> x, next |-> NoNode]
                     ELSE IF i = l.tail THEN [l.nodes[i] EXCEPT !.next = n]
                     ELSE l.nodes[i]]
    IN  [nodes |-> linked,
         head |-> IF l.head = NoNode THEN n ELSE l.head,
         tail |-> n,
         size |-> l.size + 1,
         allocated |-> n]

\* remove the head; hands back the list afterwards and the head's element
SLL_pop_left(l) ==
    LET h == l.head
        nh == l.nodes[h].next
    IN  Result([l EXCEPT !.nodes = [i \in DOMAIN l.nodes \ {h} |-> l.nodes[i]],
                         !.head = nh,
                         !.tail = IF nh = NoNode THEN NoNode ELSE l.tail,
                         !.size = l.size - 1],
               l.nodes[h].data, NoErr)

---------------------------------------------------------------------------
(* ArrayQueue *)

\* a length taken from the last filled position instead of the live count
ArrayQueue_len_LastPos(self) == self.items._last_pos_filled + 1

\* ArrayQueue.__len__
ArrayQueue_len(self) == self.items._num

\* ArrayQueue.is_empty
ArrayQueue_is_empty(self) == ArrayQueue_len(self) = 0

\* ArrayQueue.rear
rear(self) == self.items._last_pos_filled

\* items[0]
FirstItem(items) ==
    IF items.form = "set" THEN Result(items, None, TypeError)
    ELSE IF Len(items.seq) = 0
    THEN Result(items, None, IF items.form = "dict" THEN KeyError ELSE IndexError)
    ELSE Result(items, items.seq[1], NoErr)

\* a constructor that leaves front at the sentinel whatever the items
ArrayQueue_new_FrontUnset(items, dtype) ==
    IF ~items.given
    THEN Result([kind |-> "ArrayQueue", items |-> DODA_new(dtype, 0), front |-> -1],
                None, NoErr)
    ELSE IF FirstItem(items).err # NoErr
    THEN Result(NoQueue, None, FirstItem(items).err)
    ELSE LET r == DODA_of(type(FirstItem(items).ret), items)
         IN  IF r.err # NoErr THEN Result(NoQueue, None, r.err)
             ELSE Result([kind |-> "ArrayQueue", items |-> r.obj, front |-> -1],
                         None, NoErr)

\* ArrayQueue.__new__(items, dtype)
ArrayQueue_new(items, dtype) ==
    IF ~items.given
    THEN LET arr == DODA_new(dtype, 0)
         IN  Result([kind |-> "ArrayQueue", items |-> arr,
                     front |-> IF arr._num = 0 THEN -1 ELSE 0], None, NoErr)
    ELSE IF FirstItem(items).err # NoErr
    THEN Result(NoQueue, None, FirstItem(items).err)
    ELSE LET r == DODA_of(type(FirstItem(items).ret), items)
         IN  IF r.err # NoErr THEN Result(NoQueue, None, r.err)
             ELSE Result([kind |-> "ArrayQueue", items |-> r.obj,
                          front |-> IF r.obj._num = 0 THEN -1 ELSE 0], None, NoErr)

\* an append that adopts type(x) whether or not the queue is empty
ArrayQueue_append_Retype(self, x) ==
    LET s1 == [self EXCEPT !.front = IF ArrayQueue_is_empty(self) THEN 0 ELSE self.front,
                           !.items._dtype = type(x)]
        r == DODA_append(s1.items, x)
    IN  Result([s1 EXCEPT !.items = r.obj], None, r.err)

\* an append that resets front to 0 whether or not the queue is empty
ArrayQueue_append_ResetFront(self, x) ==
    LET s1 == IF ArrayQueue_is_empty(self)
              THEN [self EXCEPT !.front = 0, !.items._dtype = type(x)]
              ELSE [self EXCEPT !.front = 0]
        r == DODA_append(s1.items, x)
    IN  Result([s1 EXCEPT !.items = r.obj], None, r.err)

\* ArrayQueue.append(x)
ArrayQueue_append(self, x) ==
    LET s1 == IF ArrayQueue_is_empty(self)
              THEN [self EXCEPT !.front = 0, !.items._dtype = type(x)]
              ELSE self
        r == DODA_append(s1.items, x)
    IN  Result([s1 EXCEPT !.items = r.obj], None, r.err)

\* a prediction made from the live count before the removal
PredictsCompaction_CountBefore(self) ==
    BelowLoadFactor(self.items._num, self.items._size)

\* the queue's prediction that the delete of one element will compact
PredictsCompaction(self) ==
    BelowLoadFactor(self.items._num - 1, self.items._size)

\* a front that always advances by one, whether or not the delete compacts
NextFront_NoReset(self) ==
    IF self.front = rear(self) THEN -1 ELSE self.front + 1

\* a front that is not reset to the sentinel when the last element leaves
NextFront_NoSentinel(self) ==
    IF PredictsCompaction(self) THEN 0 ELSE self.front + 1

\* the front index after a pop, decided before the delete
NextFront(self) ==
    IF self.front = rear(self) THEN -1
    ELSE IF PredictsCompaction(self) THEN 0
    ELSE self.front + 1

\* ArrayQueue.popleft()
ArrayQueue_popleft(self) ==
    IF ArrayQueue_is_empty(self)
    THEN Result(self, None, ValueError)
    ELSE IF DODA_getitem(self.items, self.front).err # NoErr
    THEN Result(self, None, DODA_getitem(self.items, self.front).err)
    ELSE LET return_value == DODA_getitem(self.items, self.front).ret
             front_temp == self.front
         IN  Result([self EXCEPT !.front = NextFront(self),
                                 !.items = DODA_delete(self.items, front_temp)],
                    return_value, NoErr)

\* ArrayQueue.__str__: the slots front .. rear, in increasing index order
ArrayQueue_str(self) ==
    [k \in 1..(rear(self) - self.front + 1) |-> self.items._data[self.front + k - 1]]

---------------------------------------------------------------------------
(* LinkedListQueue *)

\* LinkedListQueue.__len__
LinkedListQueue_len(self) == self.size

\* LinkedListQueue.is_empty
LinkedListQueue_is_empty(self) == self.size = 0

RECURSIVE AppendAll(_, _)
AppendAll(l, s) ==
    IF Len(s) = 0 THEN l ELSE AppendAll(SLL_append(l, Head(s)), Tail(s))

\* LinkedListQueue.__new__(items, dtype)
LinkedListQueue_new(items, dtype) ==
    LET dt == IF items.given /\ Len(items.seq) # 0 /\ dtype = NoneType
              THEN type(items.seq[1]) ELSE dtype
        l == IF items.given THEN AppendAll(SLL_new, items.seq) ELSE SLL_new
    IN  IF items.given /\ items.form # "list"
        THEN Result(NoQueue, None, TypeError)
        ELSE IF items.given /\ \E i \in 1..Len(items.seq) : type(items.seq[i]) # dt
        THEN Result(NoQueue, None, TypeError)
        ELSE Result([kind |-> "LinkedListQueue", queue |-> l, _dtype |-> dt,
                     front |-> l.head, rear |-> l.tail, size |-> l.size],
                    None, NoErr)

\* an append that checks the type only while the queue holds elements
LinkedListQueue_append_AdoptWhenEmpty(self, x) ==
    IF self.size # 0 /\ self._dtype # NoneType /\ type(x) # self._dtype
    THEN Result(self, None, TypeError)
    ELSE LET l == SLL_append(self.queue, x)
         IN  Result([self EXCEPT !._dtype = type(x),
                                 !.size = self.size + 1,
                                 !.queue = l,
                                 !.front = IF self.front = NoNode THEN l.head
                                           ELSE self.front,
                                 !.rear = l.tail],
                    None, NoErr)

\* LinkedListQueue.append(x)
LinkedListQueue_append(self, x) ==
    IF self._dtype # NoneType /\ type(x) # self._dtype
    THEN Result(self, None, TypeError)
    ELSE LET l == SLL_append(self.queue, x)
         IN  Result([self EXCEPT !._dtype = IF self._dtype = NoneType THEN type(x)
                                            ELSE self._dtype,
                                 !.size = self.size + 1,
                                 !.queue = l,
                                 !.front = IF self.front = NoNode THEN l.head
                                           ELSE self.front,
                                 !.rear = l.tail],
                    None, NoErr)

\* a popleft that decrements size before it looks whether the queue is empty
LinkedListQueue_popleft_DecFirst(self) ==
    IF self.size = 0
    THEN Result([self EXCEPT !.size = self.size - 1], None, ValueError)
    ELSE LET r == SLL_pop_left(self.queue)
         IN  Result([self EXCEPT !.size = self.size - 1,
                                 !.queue = r.obj,
                                 !.front = r.obj.head,
                                 !.rear = r.obj.tail],
                    r.ret, NoErr)

\* a popleft that hands back the element of the rear node
LinkedListQueue_popleft_Rear(self) ==
    IF self.size = 0
    THEN Result(self, None, ValueError)
    ELSE LET r == SLL_pop_left(self.queue)
         IN  Result([self EXCEPT !.size = self.size - 1,
                                 !.queue = r.obj,
                                 !.front = r.obj.head,
                                 !.rear = r.obj.tail],
                    self.queue.nodes[self.rear].data, NoErr)

\* a popleft that refreshes front but leaves rear as it was
LinkedListQueue_popleft_StaleRear(self) ==
    IF self.size = 0
    THEN Result(self, None, ValueError)
    ELSE LET r == SLL_pop_left(self.queue)
         IN  Result([self EXCEPT !.size = self.size - 1,
                                 !.queue = r.obj,
                                 !.front = r.obj.head],
                    r.ret, NoErr)

\* LinkedListQueue.popleft()
LinkedListQueue_popleft(self) ==
    IF LinkedListQueue_is_empty(self)
    THEN Result(self, None, ValueError)
    ELSE LET r == SLL_pop_left(self.queue)
         IN  Result([self EXCEPT !.size = self.size - 1,
                                 !.queue = r.obj,
                                 !.front = r.obj.head,
                                 !.rear = r.obj.tail],
                    r.ret, NoErr)

---------------------------------------------------------------------------
(* Queue: the factory and the dispatch of the shared operations *)

\* a factory whose second branch constructs the first branch's class
Queue_BothArray(implementation, items, dtype) ==
    IF implementation \in {Absent, "array", "linkedlist"}
    THEN ArrayQueue_new(items, IF dtype = Absent THEN "int" ELSE dtype)
    ELSE Result(NoQueue, None, NotImplementedError)

\* Queue.__new__(implementation, items=..., dtype=...)
Queue(implementation, items, dtype) ==
    IF implementation \in {Absent, "array"}
    THEN ArrayQueue_new(items, IF dtype = Absent THEN "int" ELSE dtype)
    ELSE IF implementation = "linkedlist"
    THEN LinkedListQueue_new(items, IF dtype = Absent THEN NoneType ELSE dtype)
    ELSE Result(NoQueue, None, NotImplementedError)

\* x.append(el) on whichever variant x is
append(self, x) ==
    IF self.kind = "ArrayQueue" THEN ArrayQueue_append(self, x)
    ELSE LinkedListQueue_append(self, x)

\* x.popleft() on whichever variant x is
popleft(self) ==
    IF self.kind = "ArrayQueue" THEN ArrayQueue_popleft(self)
    ELSE LinkedListQueue_popleft(self)

\* len(x)
len(self) ==
    IF self.kind = "ArrayQueue" THEN ArrayQueue_len(self)
    ELSE LinkedListQueue_len(self)

\* x.is_empty
is_empty(self) ==
    IF self.kind = "ArrayQueue" THEN ArrayQueue_is_empty(self)
    ELSE LinkedListQueue_is_empty(self)

---------------------------------------------------------------------------
(* The caller: one queue under test (q), its last call (out) and the       *)
(* record of what the caller did (hist).                                   *)

NoCall == [op |-> "none", arg |-> None, ret |-> None, err |-> NoErr]

Call(op, arg, r) == [op |-> op, arg |-> arg, ret |-> r.ret, err |-> r.err]

\* hist.init: the initial items; hist.app: every element the queue accepted,
\* oldest first; hist.nadd / hist.npop: successful appends / pops;
\* hist.rets: the values the successful pops returned, in order;
\* hist.xtypes: the types of every x handed to append;
\* hist.onlypops: "yes" while the calls since construction were successful
\* pops of initial items, "failed" when one of those pops failed, else "no";
\* hist.fixed: an element type has been established, by a dtype given at
\* construction, by initial items or by a successful append;
\* hist.drain: whether the caller has started to drain the queue, and the
\* length and the count of successful pops when it started;
\* hist.shape: "appends" while an empty-constructed queue has seen only
\* successful appends, "pops" while these were followed by no more pops than
\* appends, "broken" when one of those pops failed, "other" otherwise
NoDrain == [on |-> FALSE, len0 |-> 0, npop0 |-> 0]

NoHist == [init |-> <<>>, app |-> <<>>, nadd |-> 0, npop |-> 0, rets |-> <<>>,
           xtypes |-> {}, onlypops |-> "no", fixed |-> FALSE, drain |-> NoDrain,
           shape |-> "other"]

HistNew(items) ==
    LET s == IF items.given THEN items.seq ELSE <<>>
    IN  [init |-> s, app |-> s, nadd |-> 0, npop |-> 0, rets |-> <<>>,
         xtypes |-> {}, onlypops |-> "yes", fixed |-> Len(s) > 0, drain |-> NoDrain,
         shape |-> IF Len(s) = 0 THEN "appends" ELSE "other"]

HistAppend(h, x, r) ==
    [h EXCEPT !.app = IF r.err = NoErr THEN Append(h.app, x) ELSE h.app,
              !.nadd = IF r.err = NoErr THEN h.nadd + 1 ELSE h.nadd,
              !.xtypes = h.xtypes \cup {type(x)},
              !.fixed = h.fixed \/ r.err = NoErr,
              !.onlypops = IF h.onlypops = "failed" THEN "failed" ELSE "no",
              !.shape = IF h.shape = "appends" /\ r.err = NoErr THEN "appends"
                        ELSE IF h.shape = "broken" THEN "broken"
                        ELSE "other"]

HistPopleft(h, r) ==
    [h EXCEPT !.npop = IF r.err = NoErr THEN h.npop + 1 ELSE h.npop,
              !.rets = IF r.err = NoErr THEN Append(h.rets, r.ret) ELSE h.rets,
              !.onlypops = IF h.onlypops = "yes" /\ h.npop < Len(h.init)
                           THEN (IF r.err = NoErr THEN "yes" ELSE "failed")
                           ELSE IF h.onlypops = "failed" THEN "failed"
                           ELSE "no",
              !.shape = IF h.shape \in {"appends", "pops"} /\ h.npop < h.nadd
                        THEN (IF r.err = NoErr THEN "pops" ELSE "broken")
                        ELSE IF h.shape = "broken" THEN "broken"
                        ELSE "other"]

Init ==
    /\ q = NoQueue
    /\ out = NoCall
    /\ hist = NoHist
    /\ q2 = NoQueue
    /\ out2 = NoCall
    /\ napp2 = 0

\* q = Queue(implementation, items=items, dtype=dtype)
New(implementation, items, dtype) ==
    /\ q = NoQueue
    /\ q2 = NoQueue
    /\ LET r == Queue(implementation, items, dtype)
       IN  /\ q' = r.obj
           /\ out' = Call("new", [implementation |-> implementation,
                                  items |-> items, dtype |-> dtype], r)
           /\ hist' = IF r.err = NoErr
                      THEN [HistNew(items) EXCEPT !.fixed = @ \/ dtype # Absent]
                      ELSE NoHist
    /\ UNCHANGED <<q2, out2, napp2>>

\* q.append(x)
DoAppend(x) ==
    /\ q # NoQueue
    /\ q2 = NoQueue
    /\ Len(hist.app) < MaxAppended
    /\ LET r == append(q, x)
       IN  /\ q' = r.obj
           /\ out' = Call("append", x, r)
           /\ hist' = HistAppend(hist, x, r)
    /\ UNCHANGED <<q2, out2, napp2>>

\* q.popleft()
DoPopleft ==
    /\ q # NoQueue
    /\ q2 = NoQueue
    /\ LET r == popleft(q)
       IN  /\ q' = r.obj
           /\ out' = Call("popleft", None, r)
           /\ hist' = HistPopleft(hist, r)
    /\ UNCHANGED <<q2, out2, napp2>>

Next ==
    \/ \E implementation \in Implementations, items \in ItemsArgs, dtype \in Dtypes :
           New(implementation, items, dtype)
    \/ \E x \in Values : DoAppend(x)
    \/ DoPopleft

Spec == Init /\ [][Next]_vars

---------------------------------------------------------------------------
(* The substitution test: an ArrayQueue (q) and a LinkedListQueue (q2),    *)
(* both constructed empty with the same dtype, receive the same calls.     *)

PairNew(dtype) ==
    /\ q = NoQueue
    /\ q2 = NoQueue
    /\ LET r == Queue("array", NoItems, dtype)
           r2 == Queue("linkedlist", NoItems, dtype)
           arg == [implementation |-> "both", items |-> NoItems, dtype |-> dtype]
       IN  /\ q' = r.obj
           /\ q2' = r2.obj
           /\ out' = Call("new", arg, r)
           /\ out2' = Call("new", arg, r2)
           /\ hist' = [HistNew(NoItems) EXCEPT !.fixed = dtype # Absent]
    /\ UNCHANGED napp2

PairAppend(x) ==
    /\ q # NoQueue
    /\ q2 # NoQueue
    /\ Len(hist.app) < MaxPairAppended
    /\ napp2 < MaxPairAppended
    /\ LET r == append(q, x)
           r2 == append(q2, x)
       IN  /\ q' = r.obj
           /\ q2' = r2.obj
           /\ out' = Call("append", x, r)
           /\ out2' = Call("append", x, r2)
           /\ hist' = HistAppend(hist, x, r)
           /\ napp2' = IF r2.err = NoErr THEN napp2 + 1 ELSE napp2

PairPopleft ==
    /\ q # NoQueue
    /\ q2 # NoQueue
    /\ LET r == popleft(q)
           r2 == popleft(q2)
       IN  /\ q' = r.obj
           /\ q2' = r2.obj
           /\ out' = Call("popleft", None, r)
           /\ out2' = Call("popleft", None, r2)
           /\ hist' = HistPopleft(hist, r)
    /\ UNCHANGED napp2

NextPair ==
    \/ \E dtype \in Dtypes : PairNew(dtype)
    \/ \E x \in Values : PairAppend(x)
    \/ PairPopleft

SpecPair == Init /\ [][NextPair]_vars

---------------------------------------------------------------------------
(* Draining: after any calls the caller decides to pop until the queue is  *)
(* empty. Every call returns (the methods have no loop and do not block),  *)
(* and the caller keeps calling popleft: weak fairness of DrainPopleft.     *)

\* the caller notes the length and starts to drain
StartDrain ==
    /\ q # NoQueue
    /\ q2 = NoQueue
    /\ ~hist.drain.on
    /\ hist' = [hist EXCEPT !.drain = [on |-> TRUE, len0 |-> len(q),
                                       npop0 |-> hist.npop]]
    /\ out' = NoCall
    /\ UNCHANGED <<q, q2, out2, napp2>>

\* q.popleft() while draining
DrainPopleft ==
    /\ hist.drain.on
    /\ DoPopleft

NextDrain ==
    \/ \E implementation \in Implementations, items \in ItemsArgs, dtype \in Dtypes :
           New(implementation, items, dtype)
    \/ \E x \in Values :
           ~hist.drain.on /\ Len(hist.app) < MaxDrainAppended /\ DoAppend(x)
    \/ ~hist.drain.on /\ DoPopleft
    \/ StartDrain
    \/ DrainPopleft

SpecDrain == Init /\ [][NextDrain]_vars /\ WF_vars(DrainPopleft)

---------------------------------------------------------------------------
(* Properties *)

IsArray == q.kind = "ArrayQueue"
IsLinked == q.kind = "LinkedListQueue"

\* s is an initial segment of t
IsPrefix(s, t) == Len(s) <= Len(t) /\ s = SubSeq(t, 1, Len(s))

\* C1: FIFO order. Starting from an empty queue of either variant, n appends
\* of x1..xn followed by n popleft calls: none of the n pops fails, the values
\* returned so far are x1, x2, ... in that order, and after the n-th pop the
\* returned sequence is exactly x1..xn.
C1_FifoOrder ==
    /\ hist.shape # "broken"
    /\ hist.shape \in {"appends", "pops"} => IsPrefix(hist.rets, hist.app)
    /\ hist.shape = "pops" /\ hist.npop = hist.nadd => hist.rets = hist.app

\* four appends (the array has grown to 7 slots) then four pops (the array
\* has compacted on the way down), two different values among them
C1_Witness ==
    /\ IsArray
    /\ hist.shape = "pops"
    /\ hist.nadd = 4
    /\ hist.npop = 4
    /\ hist.app[1] # hist.app[2]

\* C2: array queue, appends and pops freely mixed: every successful popleft
\* returns the element accepted earliest among those not yet removed, and the
\* values returned over the whole run are the accepted elements in order.
C2_ArrayPopsOldest ==
    IsArray =>
        /\ IsPrefix(hist.rets, hist.app)
        /\ out.op = "popleft" /\ out.err = NoErr =>
               /\ hist.npop \in 1..Len(hist.app)
               /\ out.ret = hist.app[hist.npop]

\* a pop that succeeds after the array has compacted and then taken new
\* appends, in a run that mixes appends and pops
C2_Witness ==
    /\ IsArray
    /\ hist.shape = "other"
    /\ Len(hist.init) = 0
    /\ out.op = "popleft"
    /\ out.err = NoErr
    /\ hist.npop = 4
    /\ hist.nadd = 6
    /\ q.front > 0

\* C3: array queue index invariant: front = -1 exactly when the queue is
\* empty; when it is not, 0 <= front <= rear < capacity and the slot at front
\* is filled.
C3_IndexInvariant ==
    IsArray =>
        /\ q.front = -1 <=> ArrayQueue_len(q) = 0
        /\ ArrayQueue_len(q) > 0 =>
               /\ 0 <= q.front
               /\ q.front <= rear(q)
               /\ rear(q) < q.items._size
               /\ q.items._data[q.front] # None

\* a non-empty array queue whose front has advanced past index 0, and one
\* emptied again by pops
C3_Witness ==
    /\ IsArray
    /\ hist.npop >= 2
    /\ ArrayQueue_len(q) >= 2
    /\ q.front >= 2

\* the observable outcome of the last call is the same on both queues
SameOutcome ==
    /\ out.ret = out2.ret
    /\ out.err = out2.err
    /\ len(q) = len(q2)
    /\ is_empty(q) = is_empty(q2)

\* C4: interchangeability. An ArrayQueue and a LinkedListQueue that start
\* empty and receive the same appends (all x of one type) and pops show the
\* same outcome at every step: same return value, same failure, same length,
\* same is_empty.
C4_Interchangeable ==
    q # NoQueue /\ q2 # NoQueue /\ Cardinality(hist.xtypes) <= 1 => SameOutcome

\* C5: popleft on a queue with zero elements (either variant, freshly built
\* or emptied by pops) raises ValueError and leaves the whole queue object as
\* it was.
C5_EmptyPopFails ==
    [][ (q # NoQueue /\ len(q) = 0 /\ out'.op = "popleft")
            => (out'.err = ValueError /\ q' = q) ]_vars

\* a failed popleft on a queue that pops have emptied
C5_Witness ==
    /\ q # NoQueue
    /\ out.op = "popleft"
    /\ out.err = ValueError
    /\ hist.npop >= 2
    /\ len(q) = 0

\* C6: linked-list type guard. Once _dtype is established, append(x) with
\* another type raises TypeError and leaves the queue object (size, front,
\* rear, _dtype, the list) as it was; and no call changes an established
\* _dtype, also after pops have emptied the queue.
C6_LinkedTypeGuard ==
    [][ (IsLinked /\ q._dtype # NoneType) =>
            /\ q'._dtype = q._dtype
            /\ (out'.op = "append" /\ type(out'.arg) # q._dtype)
                   => (out'.err = TypeError /\ q' = q) ]_vars

\* an append of another type rejected by a linked-list queue that was built
\* without a dtype, typed by its first append and emptied by pops
C6_Witness ==
    /\ IsLinked
    /\ Len(hist.init) = 0
    /\ out.op = "append"
    /\ out.err = TypeError
    /\ hist.npop = hist.nadd
    /\ hist.npop >= 1
    /\ q.size = 0

\* C7: length accounting. For both variants len(q) is the number of initial
\* items plus the successful appends minus the successful pops.
C7_LengthAccounting ==
    q # NoQueue => len(q) = Len(hist.init) + hist.nadd - hist.npop

\* a queue built from two items after two appends and three pops
C7_Witness ==
    /\ q # NoQueue
    /\ Len(hist.init) = 2
    /\ hist.nadd = 2
    /\ hist.npop = 3
    /\ len(q) = 1

\* C8: linked-list queue, appends and pops freely mixed: every successful
\* popleft returns the element accepted earliest among those not yet removed.
C8_LinkedPopsOldest ==
    IsLinked =>
        /\ IsPrefix(hist.rets, hist.app)
        /\ out.op = "popleft" /\ out.err = NoErr =>
               /\ hist.npop \in 1..Len(hist.app)
               /\ out.ret = hist.app[hist.npop]

\* append a, b; pop; append c; pop; pop: the queue is empty again
C8_Witness ==
    /\ IsLinked
    /\ Len(hist.init) = 0
    /\ hist.shape = "other"
    /\ hist.app = <<Val("int", 1), Val("int", 2), Val("int", 1)>>
    /\ hist.rets = hist.app
    /\ out.op = "popleft"
    /\ q.size = 0

\* the factory's selection with `name` as the linked-list implementation name
Selects(name) ==
    out.op = "new" =>
        /\ out.arg.implementation \in {Absent, "array"} =>
               /\ out.err # NotImplementedError
               /\ out.err = NoErr => IsArray
        /\ out.arg.implementation = name =>
               /\ out.err # NotImplementedError
               /\ out.err = NoErr => IsLinked
        /\ out.arg.implementation \notin {Absent, "array", name} =>
               /\ out.err = NotImplementedError
               /\ q = NoQueue

C10_FromItems ==
    /\ (out.op = "new" /\ out.err = NoErr /\ out.arg.items.given
            /\ Len(out.arg.items.seq) > 0) =>
           LET s == out.arg.items.seq
           IN  /\ len(q) = Len(s)
               /\ hist.init = s
               /\ IsArray =>
                      /\ q.front = 0
                      /\ out.arg.dtype = Absent => q.items._dtype = type(s[1])
               /\ IsLinked =>
                      /\ q.front = q.queue.head
                      /\ q.rear = q.queue.tail
                      /\ q.queue.nodes[q.front].data = s[1]
                      /\ q.queue.nodes[q.rear].data = s[Len(s)]
                      /\ out.arg.dtype = Absent => q._dtype = type(s[1])
    /\ hist.onlypops # "failed"
    /\ hist.onlypops = "yes" => IsPrefix(hist.rets, hist.init)
    /\ (hist.onlypops = "yes" /\ hist.npop = Len(hist.init)) => hist.rets = hist.init

\* an array queue built from two different items that two pops have drained
C10_Witness ==
    /\ IsArray
    /\ Len(hist.init) = 2
    /\ hist.init[1] # hist.init[2]
    /\ hist.onlypops = "yes"
    /\ hist.rets = hist.init

C13_InvalidItems ==
    (out.op = "new"
        /\ out.arg.implementation \in {Absent, "array", "linkedlist"}
        /\ out.arg.items.form \in {"set", "dict"})
        => (out.err = TypeError /\ q = NoQueue)

\* the accepted elements not yet removed, oldest first, after the step
Remaining(h) == SubSeq(h.app, h.npop + 1, Len(h.app))

\* the delete between two container states has shrunk and compacted the
\* storage (with elements left, compaction always changes the capacity)
Compacted(a, b) == b._size # a._size

\* C14: compaction prediction in ArrayQueue.popleft. With more than one
\* element, the queue's test (num - 1)/size < load factor, evaluated before
\* the delete, is true exactly when the delete compacts; front becomes 0
\* exactly when it compacts and front + 1 exactly when it does not, and then
\* indexes the oldest remaining element. With exactly one element
\* (front = rear) front becomes -1.
C14_CompactionPrediction ==
    [][ (IsArray /\ ArrayQueue_len(q) > 0 /\ out'.op = "popleft") =>
            /\ out'.err = NoErr
            /\ ArrayQueue_len(q) > 1 =>
                   /\ PredictsCompaction(q) <=> Compacted(q.items, q'.items)
                   /\ q'.front = 0 <=> Compacted(q.items, q'.items)
                   /\ q'.front = q.front + 1 <=> ~Compacted(q.items, q'.items)
                   /\ q'.front \in DOMAIN q'.items._data
                   /\ q'.items._data[q'.front] = Remaining(hist')[1]
            /\ ArrayQueue_len(q) = 1 =>
                   /\ q.front = rear(q)
                   /\ q'.front = -1 ]_vars

\* a pop that compacted: four appends (7 slots), two pops that advanced
\* front to 2, and a third pop that moved the last element to slot 0 of 3
C14_Witness ==
    /\ IsArray
    /\ out.op = "popleft"
    /\ out.err = NoErr
    /\ hist.nadd = 4
    /\ hist.npop = 3
    /\ q.front = 0
    /\ q.items._size = 3
    /\ ArrayQueue_len(q) = 1

\* the elements an array queue shows, oldest first (none when it is empty)
Shown(self) == IF ArrayQueue_len(self) = 0 THEN <<>> ELSE ArrayQueue_str(self)

\* C15: frame of ArrayQueue.append. On a non-empty queue front is unchanged,
\* on an empty queue front becomes 0; after a successful append, also one
\* that made the container reallocate, front indexes the oldest element and
\* the elements already present keep their order, with x behind them.
C15_AppendFrame ==
    [][ (IsArray /\ out'.op = "append") =>
            /\ ArrayQueue_len(q) > 0 => q'.front = q.front
            /\ ArrayQueue_len(q) = 0 => (out'.err = NoErr /\ q'.front = 0)
            /\ out'.err = NoErr =>
                   /\ q'.front \in DOMAIN q'.items._data
                   /\ q'.items._data[q'.front] = Remaining(hist')[1]
                   /\ Shown(q') = Append(Shown(q), out'.arg) ]_vars

\* an append that made the container grow from 3 to 7 slots while front was 1
C15_Witness ==
    /\ IsArray
    /\ out.op = "append"
    /\ out.err = NoErr
    /\ q.front = 1
    /\ q.items._size = 7
    /\ q.items._last_pos_filled = 3
    /\ ArrayQueue_len(q) = 3

\* C16: element type on ArrayQueue.append. An append changes the container's
\* element type only if no element type had been fixed before (by a dtype
\* given at construction, by initial items or by an earlier append): an
\* append to an emptied or typed-at-construction queue, and an append to a
\* non-empty queue, leave the established element type as it was.
C16_TypeSetOnlyIfUnfixed ==
    [][ (IsArray /\ out'.op = "append" /\ hist.fixed)
            => q'.items._dtype = q.items._dtype ]_vars

\* C17: linked-list mirror invariant: front and rear are both None exactly
\* when size is 0; otherwise front is the list's head and rear its tail; and
\* the queue's size counter equals the list's own size.
C17_LinkedMirror ==
    IsLinked =>
        /\ (q.front = NoNode /\ q.rear = NoNode) <=> q.size = 0
        /\ q.size # 0 =>
               /\ q.front = q.queue.head
               /\ q.rear = q.queue.tail
               /\ q.front \in DOMAIN q.queue.nodes
               /\ q.rear \in DOMAIN q.queue.nodes
        /\ q.size = q.queue.size

\* a linked-list queue emptied by pops and filled again: head and tail are
\* nodes allocated after the first ones were removed
C17_Witness ==
    /\ IsLinked
    /\ hist.npop >= 2
    /\ q.size = 2
    /\ q.front > hist.npop
    /\ q.rear > q.front
    /\ out.op = "append"

\* the drain has emptied the queue with exactly as many successful pops as
\* the queue was long, and the pop after them raised ValueError
Drained ==
    /\ hist.drain.on
    /\ q # NoQueue
    /\ len(q) = 0
    /\ hist.npop - hist.drain.npop0 = hist.drain.len0
    /\ out.op = "popleft"
    /\ out.err = ValueError

\* C18: draining always empties the queue. From every reachable state of
\* either variant, popping repeatedly leads to length 0 after exactly
\* length() successful pops, and the pop after that raises ValueError.
C18_DrainEmpties == hist.drain.on ~> Drained

\* an array queue of three elements, with pops and appends behind it,
\* drained to the failing pop
C18_Witness ==
    /\ Drained
    /\ IsArray
    /\ hist.drain.len0 = 3
    /\ hist.drain.npop0 >= 1

\* C19: contiguity of the array queue's live elements. In every reachable
\* state of a non-empty array queue the filled slots are exactly the indices
\* front .. rear, so rear - front + 1 = len, and read in increasing index
\* order they are the queue's elements from oldest to newest.
C19_Contiguity ==
    (IsArray /\ ArrayQueue_len(q) > 0) =>
        /\ \A i \in DOMAIN q.items._data :
               q.items._data[i] # None <=> i \in q.front..rear(q)
        /\ rear(q) - q.front + 1 = ArrayQueue_len(q)
        /\ ArrayQueue_str(q) = Remaining(hist)

\* three elements in slots 2 .. 4 of 7, behind two slots freed by pops
C19_Witness ==
    /\ IsArray
    /\ q.front = 2
    /\ rear(q) = 4
    /\ q.items._size = 7
    /\ ArrayQueue_len(q) = 3
    /\ ArrayQueue_str(q)[1] # ArrayQueue_str(q)[2]

====
